---- MODULE Spec2Model ----
(***************************************************************************)
(* URL shortener: the URL lifecycle service (urlService) over the GORM     *)
(* URL repository.  Every request is served by an independent worker; the  *)
(* service keeps no state of its own, so the only shared state is the      *)
(* urls table.  A service operation is split at its store calls: each      *)
(* store call is one atomic SQL statement.  The authentication service     *)
(* (authService) over the users table and the HTTP router with its         *)
(* AuthMiddleware are served by the same workers.                          *)
(***************************************************************************)
EXTENDS Integers, Sequences, FiniteSets, TLC

\* ---------------------------------------------------------------- bounds
NumProcs == 2     \* concurrent workers
MaxCalls == 3     \* operations started in one behaviour
MaxLimit == 2     \* largest limit passed to ListURLs
MaxOffset == 3    \* largest offset passed to ListURLs
MaxNow == 3       \* clock ticks in one behaviour

Procs == 1..NumProcs

\* ------------------------------------------------------- program constants
charset ==
  << "a","b","c","d","e","f","g","h","i","j","k","l","m",
     "n","o","p","q","r","s","t","u","v","w","x","y","z",
     "A","B","C","D","E","F","G","H","I","J","K","L","M",
     "N","O","P","Q","R","S","T","U","V","W","X","Y","Z",
     "0","1","2","3","4","5","6","7","8","9" >>
codeLength == 6

\* sentinel errors of the errors package; NoErr is Go's nil error
NoErr == "nil"
ErrURLNotFound == "url not found"
ErrInvalidURL == "invalid url"
ErrGeneratingCode == "error generating short code"
\* errors.Wrap(err, message): a fresh error value that is none of the
\* sentinels.  Two kinds reach the service: a failed statement (connection,
\* timeout, ...) and the unique-index violation on short_code.
\* the error rand.Int returns when the random source cannot be read
ErrRand == "rand: read failed"
\* fmt.Errorf("%w: %v", ErrGeneratingCode, err): a fresh error whose chain
\* holds ErrGeneratingCode
ErrGeneratingCodeRand == "error generating short code: rand: read failed"
\* errors.Unwrap: the error next in the chain of err, nil at its end
Unwrap(err) == IF err = ErrGeneratingCodeRand THEN ErrGeneratingCode ELSE NoErr
ErrStore == "wrapped: store failure"
ErrDuplicate == "wrapped: duplicate key"

\* ------------------------------------------------------------------ inputs
\* Outputs of crypto/rand.Int for the six positions of one code.
RandStreams == { <<0, 0, 0, 0, 0, 0>>, <<27, 51, 2, 61, 0, 35>> }

\* mutant: the loop stops one position early
generateShortCode_Short(draws) ==
  [i \in 1..(codeLength - 1) |-> charset[draws[i] + 1]]

\* one character per draw: result[i] = charset[randomIndex]
generateShortCode(draws) == [i \in 1..codeLength |-> charset[draws[i] + 1]]

Codes == { generateShortCode(d) : d \in RandStreams }

\* The context.Context a caller hands to a service method: one that is never
\* cancelled, and one that is cancelled (or past its deadline) already when
\* the method is entered.
Background == "context.Background"
Cancelled == "context canceled"
Contexts == { Background, Cancelled }

EmptyURL == ""
URLs == { EmptyURL, "https://a", "https://b" }

\* ---------------------------------------------------- authentication data
ErrInvalidCredentials == "invalid credentials"
ErrUserNotFound == "user not found"
ErrUserAlreadyExists == "user already exists"
ErrInvalidToken == "invalid token"

\* A password string: plain is the text a client typed and rounds the number
\* of times bcrypt has been run over it (0: the plain text itself).
NoPassword == [plain |-> "", rounds |-> 0]
Passwords == { [plain |-> "password123", rounds |-> 0],
               [plain |-> "wrongpassword", rounds |-> 0] }
\* the passwords accounts are registered with
NewPasswords == { [plain |-> "password123", rounds |-> 0] }
\* bcrypt.GenerateFromPassword: the hash string of s (s below bcrypt's
\* 72-byte limit, as every string of the model is)
bcrypt(s) == [s EXCEPT !.rounds = @ + 1]
\* mutant: any password is accepted
CompareHashAndPassword_Any(hash, password) == TRUE

\* bcrypt.CompareHashAndPassword(hash, password) returns nil
CompareHashAndPassword(hash, password) == hash = bcrypt(password)

\* A row of the users table (model.User); a nil *model.User is NoUser.
NoUser == [id |-> 0, username |-> "", email |-> "", password |-> NoPassword]
Usernames == { "testuser", "newuser" }
Emails == { "test@example.com", "new@example.com" }
UserIDs == 0..2

\* User.BeforeSave, the hook GORM runs before every insert and update
BeforeSave(user) ==
  IF user.password # NoPassword
    THEN [user EXCEPT !.password = bcrypt(@)]
    ELSE user

\* A string is a sequence of pieces: a word of text, or a JWT, which is its
\* claims and the signature over them.
NoClaims == [user_id |-> 0, exp |-> 0, iat |-> 0, nbf |-> 0]
\* the HMAC of the claims under key
HS256(key, claims) == [key |-> key, claims |-> claims]
NoSig == HS256("", NoClaims)
Word(text) == [form |-> "text", text |-> text, claims |-> NoClaims,
               sig |-> NoSig]
JWT(claims, sig) == [form |-> "jwt", text |-> "", claims |-> claims,
                     sig |-> sig]
EmptyString == << >>

jwtKey == "mi_clave_secreta_muy_segura"
OtherKey == "otra_clave"
\* the 24 hours a token is valid for, in ticks of the clock
TokenTTL == 2

\* the claims GenerateToken builds at time t
ClaimsAt(userID, t) ==
  [user_id |-> userID, exp |-> t + TokenTTL, iat |-> t, nbf |-> t]

\* authService.GenerateToken called at time t
GenerateToken(userID, t) ==
  LET claims == ClaimsAt(userID, t)
  IN [token |-> << JWT(claims, HS256(jwtKey, claims)) >>, err |-> NoErr]

\* mutant: the signature is not verified
ValidateToken_NoVerify(tokenString, t) ==
  IF Len(tokenString) # 1 \/ tokenString[1].form # "jwt"
    THEN [userID |-> 0, err |-> ErrInvalidToken]
  ELSE IF ~(t < tokenString[1].claims.exp) \/ t < tokenString[1].claims.nbf
    THEN [userID |-> 0, err |-> ErrInvalidToken]
  ELSE [userID |-> tokenString[1].claims.user_id, err |-> NoErr]

\* authService.ValidateToken called at time t: jwt.ParseWithClaims fails on
\* a string that is no JWT, on a signature that is not the HMAC of the
\* claims under jwtKey, at or after exp and before nbf.
ValidateToken(tokenString, t) ==
  IF Len(tokenString) # 1 \/ tokenString[1].form # "jwt"
    THEN [userID |-> 0, err |-> ErrInvalidToken]
  ELSE IF tokenString[1].sig # HS256(jwtKey, tokenString[1].claims)
    THEN [userID |-> 0, err |-> ErrInvalidToken]
  ELSE IF ~(t < tokenString[1].claims.exp) \/ t < tokenString[1].claims.nbf
    THEN [userID |-> 0, err |-> ErrInvalidToken]
  ELSE [userID |-> tokenString[1].claims.user_id, err |-> NoErr]

\* The strings presented as tokens: tokens of the service, tokens signed
\* with another key, a token whose user_id was altered after signing, a
\* string that is no JWT, and the empty string.
TokenStrings ==
  { GenerateToken(id, t).token : id \in UserIDs, t \in 0..MaxNow }
  \cup { << JWT(ClaimsAt(id, t), HS256(OtherKey, ClaimsAt(id, t))) >> :
           id \in UserIDs, t \in 0..MaxNow }
  \cup { << JWT(ClaimsAt(1, 0), HS256(jwtKey, ClaimsAt(2, 0))) >>,
         << JWT(ClaimsAt(1, 0), NoSig) >>,
         << Word("invalid.token.here") >>, EmptyString }

\* ------------------------------------------------------------------- state
\* A row of the urls table (model.URL); a nil *model.URL is NoURL.
NoURL == [id |-> 0, original_url |-> "", short_code |-> <<>>, visits |-> 0]

VARIABLES
  urls,      \* the urls table: a set of rows
  nextId,    \* next value of the primary-key sequence
  pc,        \* per worker: "idle", "create" (ShortenURL before repo.Create),
             \*             "increment" (RedirectURL before IncrementVisits)
  loc,       \* per worker: locals of the operation in flight
  ret,       \* the latest return of any operation (see NoRet)
  ncalls,    \* operations started so far
  known,     \* per worker: the row its latest ShortenURL returned; NoURL
             \*   when that call failed or the row's code was deleted since
  overlap,   \* per worker: workers whose ShortenURL of the same URL was in
             \*   flight together with its current/latest ShortenURL
  done,      \* per code: RedirectURL calls on it that returned a destination,
             \*   or Untracked once a delete or a failed increment hit the code
  removed,   \* codes deleted and not created again since
  users,     \* the users table: a set of rows
  nextUserId, \* next value of its primary-key sequence
  now        \* the clock (time.Now)

authVars == << users, nextUserId, now >>
urlVars == << urls, nextId, known, overlap, done, removed >>
vars == << urls, nextId, pc, loc, ret, ncalls, known, overlap, done, removed,
           users, nextUserId, now >>

\* originalURL, shortCode, username, email, password: the arguments and
\* locals of the method; url: the *model.URL it holds
\* taken: a user had the username or the email when Register was entered;
\* dropped: Register has discarded the store error of a lookup;
\* lookup: the error GetByOriginalURL answered ShortenURL with;
\* randErr: the error generateShortCode answered it with; ctx: the context
\* the method was called with
NoLoc == [op |-> "none", originalURL |-> "", shortCode |-> <<>>, url |-> NoURL,
          username |-> "", email |-> "", password |-> NoPassword,
          taken |-> FALSE, dropped |-> FALSE, lookup |-> NoErr,
          randErr |-> NoErr, ctx |-> Background]
\* proc: the worker; op: the operation; url_in / code_in: its argument;
\* err, url, dest: the values returned; calls: store calls it made;
\* seen: the visits of the row a RedirectURL read; inc: the error of its
\* IncrementVisits call; after: the visits the row has once that call has
\* answered (Untracked when no row has the code); limit, offset: the
\* arguments of a ListURLs and list: the rows it returned; n: the number of
\* returns so far; username, password: the arguments of a Login; user,
\* token, userID: the values an authService method returned; at: the time
\* of the call; taken, dropped, lookup, randErr, ctx: as in NoLoc; route,
\* header: an HTTP request and status, handler: the status the middleware
\* wrote and the handler the request reached
NoRet == [proc |-> 0, op |-> "none", url_in |-> "", code_in |-> <<>>,
          err |-> NoErr, url |-> NoURL, dest |-> "", calls |-> 0,
          seen |-> 0, inc |-> NoErr, after |-> 0, limit |-> 0, offset |-> 0,
          list |-> <<>>, n |-> 0,
          username |-> "", password |-> NoPassword,
          user |-> NoUser, token |-> EmptyString, userID |-> 0, at |-> 0,
          taken |-> FALSE, dropped |-> FALSE, lookup |-> NoErr,
          randErr |-> NoErr, ctx |-> Background,
          route |-> "", header |-> EmptyString, status |-> 0,
          handler |-> "none"]
Untracked == -1

\* The table a worker finds when the service starts serving: empty, or
\* holding a row that an earlier ShortenURL inserted.
SeedRow == [id |-> 1, original_url |-> "https://a",
            short_code |-> generateShortCode(<<0, 0, 0, 0, 0, 0>>),
            visits |-> 0]

Init ==
  /\ urls \in { {}, {SeedRow} }
  /\ nextId = Cardinality(urls) + 1
  /\ pc = [p \in Procs |-> "idle"]
  /\ loc = [p \in Procs |-> NoLoc]
  /\ ret = NoRet
  /\ ncalls = 0
  /\ known = [p \in Procs |-> NoURL]
  /\ overlap = [p \in Procs |-> {}]
  /\ done = [c \in Codes |-> 0]
  /\ removed = {}
  /\ users = {}
  /\ nextUserId = 1
  /\ now = 0

\* -------------------------------------------------------------- repository
\* Each operator is one statement against the table.  io = TRUE is the
\* statement failing with an error other than gorm.ErrRecordNotFound.

RowsByCode(store, shortCode) == { r \in store : r.short_code = shortCode }
RowsByURL(store, originalURL) == { r \in store : r.original_url = originalURL }

\* db.Where(...).First(dest): the matching row with the least primary key
First(rows) == CHOOSE r \in rows : \A s \in rows : r.id <= s.id

\* mutant: the urls table without its unique index
UniqueViolation_NoIndex(store, row) == FALSE

\* the unique index on short_code (model.URL, gorm:"uniqueIndex")
UniqueViolation(store, row) == RowsByCode(store, row.short_code) # {}

\* mutant: INSERT ... ON CONFLICT (short_code) DO UPDATE
Create_Upsert(store, id, url, io) ==
  LET row == [url EXCEPT !.id = id] IN
  IF io THEN [err |-> ErrStore, store |-> store, url |-> url]
  ELSE IF UniqueViolation(store, row)
       THEN [err |-> NoErr,
             store |-> { IF r.short_code = row.short_code
                         THEN [r EXCEPT !.original_url = row.original_url]
                         ELSE r : r \in store },
             url |-> [First(RowsByCode(store, row.short_code))
                        EXCEPT !.original_url = row.original_url]]
  ELSE [err |-> NoErr, store |-> store \cup {row}, url |-> row]

Create(store, id, url, io) ==
  LET row == [url EXCEPT !.id = id] IN
  IF io THEN [err |-> ErrStore, store |-> store, url |-> url]
  ELSE IF UniqueViolation(store, row)
       THEN [err |-> ErrDuplicate, store |-> store, url |-> url]
  ELSE [err |-> NoErr, store |-> store \cup {row}, url |-> row]

\* mutant: the query without its WHERE clause
GetByShortCode_NoWhere(store, shortCode, io) ==
  IF io THEN [err |-> ErrStore, url |-> NoURL]
  ELSE IF store = {} THEN [err |-> ErrURLNotFound, url |-> NoURL]
  ELSE [err |-> NoErr, url |-> First(store)]

GetByShortCode(store, shortCode, io) ==
  IF io THEN [err |-> ErrStore, url |-> NoURL]
  ELSE IF RowsByCode(store, shortCode) = {}
       THEN [err |-> ErrURLNotFound, url |-> NoURL]
  ELSE [err |-> NoErr, url |-> First(RowsByCode(store, shortCode))]

GetByOriginalURL(store, originalURL, io) ==
  IF io THEN [err |-> ErrStore, url |-> NoURL]
  ELSE IF RowsByURL(store, originalURL) = {}
       THEN [err |-> NoErr, url |-> NoURL]
  ELSE [err |-> NoErr, url |-> First(RowsByURL(store, originalURL))]

\* mutant: the update is queued and the call answers at once
IncrementVisits_Deferred(store, shortCode, io) ==
  IF io THEN [err |-> ErrStore, store |-> store]
  ELSE IF RowsByCode(store, shortCode) = {}
       THEN [err |-> ErrURLNotFound, store |-> store]
  ELSE [err |-> NoErr, store |-> store]

\* mutant: the statement subtracts
IncrementVisits_Decrement(store, shortCode, io) ==
  IF io THEN [err |-> ErrStore, store |-> store]
  ELSE IF RowsByCode(store, shortCode) = {}
       THEN [err |-> ErrURLNotFound, store |-> store]
  ELSE [err |-> NoErr,
        store |-> { IF r.short_code = shortCode
                    THEN [r EXCEPT !.visits = r.visits - 1] ELSE r
                    : r \in store }]

\* mutant: the statement without its WHERE clause
IncrementVisits_NoWhere(store, shortCode, io) ==
  IF io THEN [err |-> ErrStore, store |-> store]
  ELSE IF RowsByCode(store, shortCode) = {}
       THEN [err |-> ErrURLNotFound, store |-> store]
  ELSE [err |-> NoErr,
        store |-> { [r EXCEPT !.visits = r.visits + 1] : r \in store }]

\* mutant: INSERT ... ON CONFLICT (short_code) DO UPDATE SET visits = visits + 1
IncrementVisits_Upsert(store, shortCode, io) ==
  IF io THEN [err |-> ErrStore, store |-> store]
  ELSE IF RowsByCode(store, shortCode) = {}
       THEN [err |-> NoErr,
             store |-> store \cup { [NoURL EXCEPT !.short_code = shortCode,
                                                  !.visits = 1] }]
  ELSE [err |-> NoErr,
        store |-> { IF r.short_code = shortCode
                    THEN [r EXCEPT !.visits = r.visits + 1] ELSE r
                    : r \in store }]

\* UPDATE urls SET visits = visits + 1 WHERE short_code = ?
IncrementVisits(store, shortCode, io) ==
  IF io THEN [err |-> ErrStore, store |-> store]
  ELSE IF RowsByCode(store, shortCode) = {}
       THEN [err |-> ErrURLNotFound, store |-> store]
  ELSE [err |-> NoErr,
        store |-> { IF r.short_code = shortCode
                    THEN [r EXCEPT !.visits = r.visits + 1] ELSE r
                    : r \in store }]

\* CreatedAt (autoCreateTime): a row is stamped when it is inserted; the
\* insert sequence serves as the clock, so a later insert has a later stamp.
created_at(row) == row.id

\* The orders in which a SELECT without ORDER BY may produce the rows: the
\* statement fixes none, so each execution produces any one of them.
ScanOrders(store) ==
  { ord \in [1..Cardinality(store) -> store] :
      \A r \in store : \E i \in 1..Cardinality(store) : ord[i] = r }

\* rows offset+1 .. offset+limit of the rows as produced
Window(ord, limit, offset) ==
  IF offset >= Len(ord) THEN << >>
  ELSE SubSeq(ord, offset + 1,
              IF offset + limit < Len(ord) THEN offset + limit ELSE Len(ord))

\* SELECT * FROM urls LIMIT ? OFFSET ?  (findAll: no ORDER BY); ord is the
\* order this execution produced the rows in
List(store, limit, offset, io, ord) ==
  IF io THEN [err |-> ErrStore, urls |-> << >>]
  ELSE [err |-> NoErr, urls |-> Window(ord, limit, offset)]

\* mutant: RowsAffected is not looked at
Delete_NoRowsCheck(store, shortCode, io) ==
  IF io THEN [err |-> ErrStore, store |-> store]
  ELSE [err |-> NoErr, store |-> store \ RowsByCode(store, shortCode)]

\* mutant: the statement without its WHERE clause
Delete_NoWhere(store, shortCode, io) ==
  IF io THEN [err |-> ErrStore, store |-> store]
  ELSE IF RowsByCode(store, shortCode) = {}
       THEN [err |-> ErrURLNotFound, store |-> store]
  ELSE [err |-> NoErr, store |-> {}]

\* mutant: the row is marked deleted and stays in the table
Delete_Soft(store, shortCode, io) ==
  IF io THEN [err |-> ErrStore, store |-> store]
  ELSE IF RowsByCode(store, shortCode) = {}
       THEN [err |-> ErrURLNotFound, store |-> store]
  ELSE [err |-> NoErr, store |-> store]

\* DELETE FROM urls WHERE short_code = ?
Delete(store, shortCode, io) ==
  IF io THEN [err |-> ErrStore, store |-> store]
  ELSE IF RowsByCode(store, shortCode) = {}
       THEN [err |-> ErrURLNotFound, store |-> store]
  ELSE [err |-> NoErr, store |-> store \ RowsByCode(store, shortCode)]

\* ----------------------------------------------------------------- service
\* A worker takes a request: the service method is entered.
Start(p) ==
  /\ pc[p] = "idle"
  /\ ncalls < MaxCalls
  /\ ncalls' = ncalls + 1

Return(p, r) ==
  /\ pc' = [pc EXCEPT ![p] = "idle"]
  /\ loc' = [loc EXCEPT ![p] = NoLoc]
  /\ ret' = [r EXCEPT !.proc = p, !.n = ret.n + 1]

\* workers that are between the lookup and the Create of ShortenURL(u)
Creating(u) == { q \in Procs : pc[q] = "create" /\ loc[q].originalURL = u }

\* rand.Int returning an error: the stream yields no draw
RandFail == << >>

\* mutant: no input check
ValidURL_Any(originalURL) == TRUE

\* the input check of ShortenURL
ValidURL(originalURL) == originalURL # EmptyURL

\* mutant: the lookup is made and its answer is not looked at
DedupHit_Never(g) == FALSE

\* the dedup test of ShortenURL on the answer g of GetByOriginalURL
DedupHit(g) == g.err = NoErr /\ g.url # NoURL

\* generateShortCode over the stream rnd: the first error of rand.Int ends
\* it
GenerateShortCode(rnd) ==
  IF rnd = RandFail THEN [code |-> << >>, err |-> ErrRand]
  ELSE [code |-> generateShortCode(rnd), err |-> NoErr]

\* mutant: a failed generation falls back to a fixed code
AfterGenerate_Fallback(s) ==
  IF s.err # NoErr
    THEN [code |-> generateShortCode(<<0, 0, 0, 0, 0, 0>>), err |-> NoErr]
    ELSE [code |-> s.code, err |-> NoErr]

\* what ShortenURL makes of the answer s of generateShortCode
AfterGenerate(s) ==
  IF s.err # NoErr THEN [code |-> << >>, err |-> ErrGeneratingCodeRand]
  ELSE [code |-> s.code, err |-> NoErr]

\* ShortenURL up to its second store call: validation, the dedup lookup and
\* the code generation.
ShortenURL_Lookup(p, ctx, originalURL, io, rnd) ==
  LET r0 == [NoRet EXCEPT !.op = "ShortenURL", !.url_in = originalURL,
                          !.ctx = ctx]
      g == GetByOriginalURL(urls, originalURL, io)
      r1 == [r0 EXCEPT !.calls = 1, !.lookup = g.err]
      s == GenerateShortCode(rnd)
      a == AfterGenerate(s)
  IN
  /\ Start(p)
  /\ overlap' = [q \in Procs |->
                   IF q = p THEN Creating(originalURL)
                   ELSE IF q \in Creating(originalURL)
                        THEN overlap[q] \cup {p} ELSE overlap[q]]
  /\ UNCHANGED << urls, nextId, done, removed >>
  /\ UNCHANGED authVars
  /\ IF ~ValidURL(originalURL)
       THEN /\ Return(p, [r0 EXCEPT !.err = ErrInvalidURL])
            /\ known' = [known EXCEPT ![p] = NoURL]
     ELSE IF DedupHit(g)
       THEN /\ Return(p, [r1 EXCEPT !.url = g.url])
            /\ known' = [known EXCEPT ![p] = g.url]
     ELSE IF a.err # NoErr
       THEN /\ Return(p, [r1 EXCEPT !.err = a.err, !.randErr = s.err])
            /\ known' = [known EXCEPT ![p] = NoURL]
     ELSE /\ pc' = [pc EXCEPT ![p] = "create"]
          /\ loc' = [loc EXCEPT ![p] =
                       [NoLoc EXCEPT !.op = "ShortenURL",
                                     !.originalURL = originalURL,
                                     !.shortCode = a.code,
                                     !.lookup = g.err, !.randErr = s.err,
                                     !.ctx = ctx]]
          /\ UNCHANGED << ret, known >>

\* ShortenURL from repo.Create to its return.
ShortenURL_Create(p, io) ==
  LET url == [id |-> 0, original_url |-> loc[p].originalURL,
              short_code |-> loc[p].shortCode, visits |-> 0]
      c == Create(urls, nextId, url, io)
      r == [NoRet EXCEPT !.op = "ShortenURL", !.url_in = loc[p].originalURL,
                         !.calls = 2, !.lookup = loc[p].lookup,
                         !.randErr = loc[p].randErr, !.ctx = loc[p].ctx]
  IN
  /\ pc[p] = "create"
  /\ urls' = c.store
  /\ UNCHANGED << ncalls, overlap, done >>
  /\ UNCHANGED authVars
  /\ IF c.err # NoErr
       THEN /\ Return(p, [r EXCEPT !.err = c.err])
            /\ known' = [known EXCEPT ![p] = NoURL]
            /\ UNCHANGED << nextId, removed >>
     ELSE /\ Return(p, [r EXCEPT !.url = c.url])
          /\ nextId' = nextId + 1
          /\ known' = [known EXCEPT ![p] = c.url]
          /\ removed' = removed \ {loc[p].shortCode}

GetURL(p, ctx, shortCode, io) ==
  LET g == GetByShortCode(urls, shortCode, io)
      r == [NoRet EXCEPT !.op = "GetURL", !.code_in = shortCode, !.calls = 1,
                         !.ctx = ctx]
  IN
  /\ Start(p)
  /\ IF g.err # NoErr THEN Return(p, [r EXCEPT !.err = g.err])
     ELSE IF g.url = NoURL THEN Return(p, [r EXCEPT !.err = ErrURLNotFound])
     ELSE Return(p, [r EXCEPT !.url = g.url])
  /\ UNCHANGED << urls, nextId, known, overlap, done, removed >>
  /\ UNCHANGED authVars

\* RedirectURL up to its second store call.
RedirectURL_Get(p, ctx, shortCode, io) ==
  LET g == GetByShortCode(urls, shortCode, io)
      r == [NoRet EXCEPT !.op = "RedirectURL", !.code_in = shortCode,
                         !.calls = 1, !.ctx = ctx]
  IN
  /\ Start(p)
  /\ UNCHANGED << urls, nextId, known, overlap, done, removed >>
  /\ UNCHANGED authVars
  /\ IF g.err # NoErr THEN Return(p, [r EXCEPT !.err = g.err])
     ELSE IF g.url = NoURL THEN Return(p, [r EXCEPT !.err = ErrURLNotFound])
     ELSE /\ pc' = [pc EXCEPT ![p] = "increment"]
          /\ loc' = [loc EXCEPT ![p] =
                       [NoLoc EXCEPT !.op = "RedirectURL",
                                     !.shortCode = shortCode, !.url = g.url,
                                     !.ctx = ctx]]
          /\ UNCHANGED ret

\* mutant: the service adds one to the Visits it read and saves the row
RedirectURL_ReadModifyWrite(p, io) ==
  LET code == loc[p].shortCode
      r == [NoRet EXCEPT !.op = "RedirectURL", !.code_in = code,
                         !.calls = 2, !.dest = loc[p].url.original_url,
                         !.seen = loc[p].url.visits, !.ctx = loc[p].ctx]
      hit == ~io /\ RowsByCode(urls, code) # {}
  IN
  /\ pc[p] = "increment"
  /\ urls' = IF hit THEN { IF row.short_code = code
                             THEN [row EXCEPT !.visits = loc[p].url.visits + 1]
                             ELSE row : row \in urls }
             ELSE urls
  /\ Return(p, r)
  /\ done' = [done EXCEPT ![code] =
                IF @ = Untracked \/ ~hit THEN Untracked ELSE @ + 1]
  /\ UNCHANGED << nextId, ncalls, known, overlap, removed >>
  /\ UNCHANGED authVars

\* the visits of the row holding shortCode
VisitsOf(store, shortCode) ==
  IF RowsByCode(store, shortCode) = {} THEN Untracked
  ELSE First(RowsByCode(store, shortCode)).visits

\* mutant: the error of the increment is returned to the caller
AfterIncrement_Propagate(url, err) ==
  IF err # NoErr THEN [dest |-> "", err |-> err]
  ELSE [dest |-> url.original_url, err |-> NoErr]

\* what RedirectURL returns once IncrementVisits has answered err: the error
\* is printed and dropped
AfterIncrement(url, err) == [dest |-> url.original_url, err |-> NoErr]

\* RedirectURL from repo.IncrementVisits to its return.
RedirectURL_Increment(p, io) ==
  LET i == IncrementVisits(urls, loc[p].shortCode, io)
      a == AfterIncrement(loc[p].url, i.err)
      r == [NoRet EXCEPT !.op = "RedirectURL", !.code_in = loc[p].shortCode,
                         !.calls = 2, !.dest = a.dest, !.err = a.err,
                         !.seen = loc[p].url.visits, !.inc = i.err,
                         !.after = VisitsOf(i.store, loc[p].shortCode),
                         !.ctx = loc[p].ctx]
  IN
  /\ pc[p] = "increment"
  /\ urls' = i.store
  /\ Return(p, r)
  /\ done' = [done EXCEPT ![loc[p].shortCode] =
                IF @ = Untracked \/ i.err # NoErr THEN Untracked ELSE @ + 1]
  /\ UNCHANGED << nextId, ncalls, known, overlap, removed >>
  /\ UNCHANGED authVars

DeleteURL(p, ctx, shortCode, io) ==
  LET d == Delete(urls, shortCode, io)
      r == [NoRet EXCEPT !.op = "DeleteURL", !.code_in = shortCode,
                         !.calls = 1, !.ctx = ctx]
  IN
  /\ Start(p)
  /\ urls' = d.store
  /\ Return(p, [r EXCEPT !.err = d.err])
  /\ IF d.err = NoErr
       THEN /\ done' = [done EXCEPT ![shortCode] = Untracked]
            /\ removed' = removed \cup {shortCode}
            /\ known' = [q \in Procs |->
                           IF known[q].short_code = shortCode
                           THEN NoURL ELSE known[q]]
     ELSE UNCHANGED << done, removed, known >>
  /\ UNCHANGED << nextId, overlap >>
  /\ UNCHANGED authVars

\* ListURLs hands the answer of repo.List through.
ListURLs(p, ctx, limit, offset, io) ==
  \E ord \in ScanOrders(urls) :
    LET l == List(urls, limit, offset, io, ord)
        r == [NoRet EXCEPT !.op = "ListURLs", !.limit = limit,
                           !.offset = offset, !.calls = 1, !.ctx = ctx]
    IN
    /\ Start(p)
    /\ Return(p, [r EXCEPT !.err = l.err, !.list = l.urls])
    /\ UNCHANGED << urls, nextId, known, overlap, done, removed >>
    /\ UNCHANGED authVars

Next ==
  \/ \E p \in Procs, u \in URLs, io \in BOOLEAN,
        rnd \in RandStreams \cup {RandFail} :
        ShortenURL_Lookup(p, Background, u, io, rnd)
  \/ \E p \in Procs, io \in BOOLEAN : ShortenURL_Create(p, io)
  \/ \E p \in Procs, c \in Codes, io \in BOOLEAN :
        GetURL(p, Background, c, io)
  \/ \E p \in Procs, c \in Codes, io \in BOOLEAN :
        RedirectURL_Get(p, Background, c, io)
  \/ \E p \in Procs, io \in BOOLEAN : RedirectURL_Increment(p, io)
  \/ \E p \in Procs, c \in Codes, io \in BOOLEAN :
        DeleteURL(p, Background, c, io)

Spec == Init /\ [][Next]_vars

\* The same service over a store whose statements never fail.
NextNoFault ==
  \/ \E p \in Procs, u \in URLs, rnd \in RandStreams \cup {RandFail} :
        ShortenURL_Lookup(p, Background, u, FALSE, rnd)
  \/ \E p \in Procs : ShortenURL_Create(p, FALSE)
  \/ \E p \in Procs, c \in Codes : GetURL(p, Background, c, FALSE)
  \/ \E p \in Procs, c \in Codes : RedirectURL_Get(p, Background, c, FALSE)
  \/ \E p \in Procs : RedirectURL_Increment(p, FALSE)
  \/ \E p \in Procs, c \in Codes : DeleteURL(p, Background, c, FALSE)

SpecNoFault == Init /\ [][NextNoFault]_vars

\* Listing: ListURLs interleaved with the operations that insert and remove
\* rows.  ListURLs reads only, so it is kept out of Next, where it would
\* change nothing but ret.
Limits == 1..MaxLimit
Offsets == 0..MaxOffset
NextList ==
  \/ \E p \in Procs, u \in URLs, rnd \in RandStreams \cup {RandFail} :
        ShortenURL_Lookup(p, Background, u, FALSE, rnd)
  \/ \E p \in Procs : ShortenURL_Create(p, FALSE)
  \/ \E p \in Procs, c \in Codes : DeleteURL(p, Background, c, FALSE)
  \/ \E p \in Procs, limit \in Limits, offset \in Offsets, io \in BOOLEAN :
        ListURLs(p, Background, limit, offset, io)

SpecList == Init /\ [][NextList]_vars

\* Every operation of the service, ListURLs included, over a store whose
\* statements may fail; the dedup lookup of ShortenURL is answered (its
\* failure is followed in Spec).
NextAll ==
  \/ \E p \in Procs, u \in URLs, rnd \in RandStreams \cup {RandFail} :
        ShortenURL_Lookup(p, Background, u, FALSE, rnd)
  \/ \E p \in Procs, io \in BOOLEAN : ShortenURL_Create(p, io)
  \/ \E p \in Procs, c \in Codes, io \in BOOLEAN :
        GetURL(p, Background, c, io)
  \/ \E p \in Procs, c \in Codes, io \in BOOLEAN :
        RedirectURL_Get(p, Background, c, io)
  \/ \E p \in Procs, io \in BOOLEAN : RedirectURL_Increment(p, io)
  \/ \E p \in Procs, c \in Codes, io \in BOOLEAN :
        DeleteURL(p, Background, c, io)
  \/ \E p \in Procs, offset \in {0, 1}, io \in BOOLEAN :
        ListURLs(p, Background, MaxLimit, offset, io)

SpecAll == Init /\ [][NextAll]_vars

\* The service called with either context, over a store whose statements
\* never fail.  The repository methods take ctx and do not hand it to GORM
\* (no db.WithContext), so a statement is the same whatever ctx is.
NextCtx ==
  \/ \E p \in Procs, ctx \in Contexts, u \in URLs,
        rnd \in RandStreams \cup {RandFail} :
        ShortenURL_Lookup(p, ctx, u, FALSE, rnd)
  \/ \E p \in Procs : ShortenURL_Create(p, FALSE)
  \/ \E p \in Procs, ctx \in Contexts, c \in Codes : GetURL(p, ctx, c, FALSE)
  \/ \E p \in Procs, ctx \in Contexts, c \in Codes :
        RedirectURL_Get(p, ctx, c, FALSE)
  \/ \E p \in Procs : RedirectURL_Increment(p, FALSE)
  \/ \E p \in Procs, ctx \in Contexts, c \in Codes :
        DeleteURL(p, ctx, c, FALSE)
  \/ \E p \in Procs, ctx \in Contexts, offset \in {0, 1} :
        ListURLs(p, ctx, MaxLimit, offset, FALSE)

SpecCtx == Init /\ [][NextCtx]_vars

\* --------------------------------------------------------- user repository
UsersByName(store, username) == { u \in store : u.username = username }
UsersByEmail(store, email) == { u \in store : u.email = email }

GetByUsername(store, username, io) ==
  IF io THEN [err |-> ErrStore, user |-> NoUser]
  ELSE IF UsersByName(store, username) = {}
       THEN [err |-> ErrUserNotFound, user |-> NoUser]
  ELSE [err |-> NoErr, user |-> First(UsersByName(store, username))]

GetByEmail(store, email, io) ==
  IF io THEN [err |-> ErrStore, user |-> NoUser]
  ELSE IF UsersByEmail(store, email) = {}
       THEN [err |-> ErrUserNotFound, user |-> NoUser]
  ELSE [err |-> NoErr, user |-> First(UsersByEmail(store, email))]

\* the unique constraints on username and on email (model.User)
UserUniqueViolation(store, row) ==
  UsersByName(store, row.username) # {} \/ UsersByEmail(store, row.email) # {}

\* db.Create(user): the BeforeSave hook runs, then the INSERT
CreateUser(store, id, user, io) ==
  LET row == [BeforeSave(user) EXCEPT !.id = id] IN
  IF io THEN [err |-> ErrStore, store |-> store, user |-> user]
  ELSE IF UserUniqueViolation(store, row)
       THEN [err |-> ErrDuplicate, store |-> store, user |-> user]
  ELSE [err |-> NoErr, store |-> store \cup {row}, user |-> row]

\* The user the integration setup inserts through userRepo.CreateUser
\* before the server takes requests.
SeedUser ==
  CreateUser({}, 1, [NoUser EXCEPT !.username = "testuser",
                                   !.email = "test@example.com",
                                   !.password = [plain |-> "password123",
                                                 rounds |-> 0]],
             FALSE).user

\* ------------------------------------------------ authentication service
InitAuth ==
  /\ urls = {}
  /\ nextId = 1
  /\ pc = [p \in Procs |-> "idle"]
  /\ loc = [p \in Procs |-> NoLoc]
  /\ ret = NoRet
  /\ ncalls = 0
  /\ known = [p \in Procs |-> NoURL]
  /\ overlap = [p \in Procs |-> {}]
  /\ done = [c \in Codes |-> 0]
  /\ removed = {}
  /\ users \in { {}, {SeedUser} }
  /\ nextUserId = Cardinality(users) + 1
  /\ now = 0

\* time passes
Tick ==
  /\ now < MaxNow
  /\ now' = now + 1
  /\ UNCHANGED << urlVars, pc, loc, ret, ncalls, users, nextUserId >>

\* mutant: the lookups of Register are not looked at
Exists_Never(g) == FALSE

\* existingUser != nil: the error of the lookup is discarded
Exists(g) == g.user # NoUser

Taken(store, username, email) ==
  UsersByName(store, username) # {} \/ UsersByEmail(store, email) # {}

\* Register up to its second store call: the lookup by username.
Register_ByUsername(p, username, email, password, io) ==
  LET g == GetByUsername(users, username, io)
      r == [NoRet EXCEPT !.op = "Register", !.calls = 1, !.at = now,
                         !.taken = Taken(users, username, email),
                         !.dropped = (g.err = ErrStore)]
  IN
  /\ Start(p)
  /\ UNCHANGED << urlVars, authVars >>
  /\ IF Exists(g) THEN Return(p, [r EXCEPT !.err = ErrUserAlreadyExists])
     ELSE /\ pc' = [pc EXCEPT ![p] = "byEmail"]
          /\ loc' = [loc EXCEPT ![p] =
                       [NoLoc EXCEPT !.op = "Register",
                                     !.username = username, !.email = email,
                                     !.password = password,
                                     !.taken = r.taken,
                                     !.dropped = r.dropped]]
          /\ UNCHANGED ret

\* Register from the lookup by email to the hashing of the password.
Register_ByEmail(p, io) ==
  LET g == GetByEmail(users, loc[p].email, io)
      r == [NoRet EXCEPT !.op = "Register", !.calls = 2, !.at = now,
                         !.taken = loc[p].taken,
                         !.dropped = loc[p].dropped \/ g.err = ErrStore]
  IN
  /\ pc[p] = "byEmail"
  /\ UNCHANGED << urlVars, authVars, ncalls >>
  /\ IF Exists(g) THEN Return(p, [r EXCEPT !.err = ErrUserAlreadyExists])
     ELSE /\ pc' = [pc EXCEPT ![p] = "createUser"]
          /\ loc' = [loc EXCEPT ![p].password = bcrypt(@),
                                ![p].dropped = r.dropped]
          /\ UNCHANGED ret

\* Register from userRepo.CreateUser to its return.
Register_Create(p, io) ==
  LET user == [NoUser EXCEPT !.username = loc[p].username,
                             !.email = loc[p].email,
                             !.password = loc[p].password]
      c == CreateUser(users, nextUserId, user, io)
      r == [NoRet EXCEPT !.op = "Register", !.calls = 3, !.at = now,
                         !.taken = loc[p].taken, !.dropped = loc[p].dropped]
  IN
  /\ pc[p] = "createUser"
  /\ users' = c.store
  /\ UNCHANGED << urlVars, ncalls, now >>
  /\ IF c.err # NoErr
       THEN /\ Return(p, [r EXCEPT !.err = c.err])
            /\ UNCHANGED nextUserId
     ELSE /\ Return(p, [r EXCEPT !.user = c.user,
                                  !.token = GenerateToken(c.user.id, now).token])
          /\ nextUserId' = nextUserId + 1

Login(p, username, password, io) ==
  LET g == GetByUsername(users, username, io)
      r == [NoRet EXCEPT !.op = "Login", !.username = username,
                         !.password = password, !.calls = 1, !.at = now]
  IN
  /\ Start(p)
  /\ UNCHANGED << urlVars, authVars >>
  /\ IF g.err # NoErr THEN Return(p, [r EXCEPT !.err = ErrInvalidCredentials])
     ELSE IF g.user = NoUser THEN Return(p, [r EXCEPT !.err = ErrUserNotFound])
     ELSE IF ~CompareHashAndPassword(g.user.password, password)
       THEN Return(p, [r EXCEPT !.err = ErrInvalidCredentials])
     ELSE Return(p, [r EXCEPT !.token = GenerateToken(g.user.id, now).token])

GenerateToken_Call(p, userID) ==
  LET g == GenerateToken(userID, now)
      r == [NoRet EXCEPT !.op = "GenerateToken", !.userID = userID,
                         !.at = now]
  IN
  /\ Start(p)
  /\ UNCHANGED << urlVars, authVars >>
  /\ Return(p, [r EXCEPT !.token = g.token, !.err = g.err])

ValidateToken_Call(p, tokenString) ==
  LET v == ValidateToken(tokenString, now)
      r == [NoRet EXCEPT !.op = "ValidateToken", !.token = tokenString,
                         !.at = now]
  IN
  /\ Start(p)
  /\ UNCHANGED << urlVars, authVars >>
  /\ Return(p, [r EXCEPT !.userID = v.userID, !.err = v.err])

\* Tokens issued and validated, as time passes.
NextTokens ==
  \/ Tick
  \/ \E p \in Procs, id \in UserIDs : GenerateToken_Call(p, id)
  \/ \E p \in Procs, tok \in TokenStrings : ValidateToken_Call(p, tok)

\* tokens do not depend on the users table
InitTokens == InitAuth /\ users = {}

SpecTokens == InitTokens /\ [][NextTokens]_vars

\* Accounts: Register and Login over the users table.
NextAuth ==
  \/ \E p \in Procs, u \in Usernames, e \in Emails, pw \in NewPasswords,
        io \in BOOLEAN : Register_ByUsername(p, u, e, pw, io)
  \/ \E p \in Procs, io \in BOOLEAN : Register_ByEmail(p, io)
  \/ \E p \in Procs, io \in BOOLEAN : Register_Create(p, io)
  \/ \E p \in Procs, u \in Usernames, pw \in Passwords, io \in BOOLEAN :
        Login(p, u, pw, io)

SpecAuth == InitAuth /\ [][NextAuth]_vars

\* The same accounts over a store whose statements never fail.
NextAuthNoFault ==
  \/ \E p \in Procs, u \in Usernames, e \in Emails, pw \in NewPasswords :
        Register_ByUsername(p, u, e, pw, FALSE)
  \/ \E p \in Procs : Register_ByEmail(p, FALSE)
  \/ \E p \in Procs : Register_Create(p, FALSE)
  \/ \E p \in Procs, u \in Usernames, pw \in Passwords :
        Login(p, u, pw, FALSE)

SpecAuthNoFault == InitAuth /\ [][NextAuthNoFault]_vars

\* ------------------------------------------------------------ HTTP router
\* The routes RegisterRoutes installs: whether authRequired is in the chain
\* of the route, and its handler.
Router ==
  [ r \in { "GET /", "GET /health", "POST /auth/register",
            "POST /auth/login", "GET /api/profile", "POST /api/urls",
            "GET /api/urls", "GET /api/urls/:shortCode",
            "DELETE /api/urls/:shortCode", "GET /:shortCode" } |->
    CASE r = "GET /" ->
           [authRequired |-> FALSE, handler |-> "HelloWorldHandler"]
      [] r = "GET /health" ->
           [authRequired |-> FALSE, handler |-> "healthHandler"]
      [] r = "POST /auth/register" ->
           [authRequired |-> FALSE, handler |-> "AuthHandler.Register"]
      [] r = "POST /auth/login" ->
           [authRequired |-> FALSE, handler |-> "AuthHandler.Login"]
      [] r = "GET /api/profile" ->
           [authRequired |-> TRUE, handler |-> "AuthHandler.GetUserProfile"]
      [] r = "POST /api/urls" ->
           [authRequired |-> TRUE, handler |-> "URLHandler.ShortenURL"]
      [] r = "GET /api/urls" ->
           [authRequired |-> TRUE, handler |-> "URLHandler.ListURLs"]
      [] r = "GET /api/urls/:shortCode" ->
           [authRequired |-> TRUE, handler |-> "URLHandler.GetURLInfo"]
      [] r = "DELETE /api/urls/:shortCode" ->
           [authRequired |-> TRUE, handler |-> "URLHandler.DeleteURL"]
      [] r = "GET /:shortCode" ->
           [authRequired |-> FALSE, handler |-> "URLHandler.RedirectURL"] ]
Routes == DOMAIN Router

\* the space character
SP == Word(" ")
Bearer == Word("Bearer")

\* the position of the first space of s, 0 when it has none
IndexSP(s) ==
  IF \A i \in 1..Len(s) : s[i] # SP THEN 0
  ELSE CHOOSE i \in 1..Len(s) : s[i] = SP /\ \A j \in 1..(i - 1) : s[j] # SP

\* strings.Split(s, " ")
RECURSIVE Split(_)
Split(s) ==
  IF IndexSP(s) = 0 THEN << s >>
  ELSE << SubSeq(s, 1, IndexSP(s) - 1) >>
         \o Split(SubSeq(s, IndexSP(s) + 1, Len(s)))

\* The Authorization headers of the requests: none; "Bearer <token>" with
\* a token of the service (valid until it expires), a token signed with
\* another key, a string that is no JWT and the empty string; and headers
\* of other forms around the token of the service.
GoodToken == GenerateToken(1, 0).token
Headers ==
  { EmptyString,
    << Bearer, SP >> \o GoodToken,
    << Bearer, SP >>
      \o << JWT(ClaimsAt(1, 0), HS256(OtherKey, ClaimsAt(1, 0))) >>,
    << Bearer, SP, Word("invalid.token.here") >>,
    << Bearer, SP >>,
    GoodToken,
    << Word("Basic"), SP >> \o GoodToken,
    << Bearer, SP, SP >> \o GoodToken,
    << Bearer, SP >> \o GoodToken \o << SP >> }

\* mutant: the 401 is written but the chain is not aborted
AuthMiddleware_NoAbort(authHeader, t) ==
  IF authHeader = EmptyString
    THEN [status |-> 401, next |-> TRUE, userID |-> 0]
  ELSE IF Len(Split(authHeader)) # 2 \/ Split(authHeader)[1] # << Bearer >>
    THEN [status |-> 401, next |-> TRUE, userID |-> 0]
  ELSE IF ValidateToken(Split(authHeader)[2], t).err # NoErr
    THEN [status |-> 401, next |-> TRUE, userID |-> 0]
  ELSE [status |-> 0, next |-> TRUE,
        userID |-> ValidateToken(Split(authHeader)[2], t).userID]

\* AuthMiddleware on a request with that Authorization header at time t:
\* the status it writes (0: none), whether the chain goes on to the handler
\* (c.Next) and the userID it sets in the context.
AuthMiddleware(authHeader, t) ==
  IF authHeader = EmptyString
    THEN [status |-> 401, next |-> FALSE, userID |-> 0]
  ELSE IF Len(Split(authHeader)) # 2 \/ Split(authHeader)[1] # << Bearer >>
    THEN [status |-> 401, next |-> FALSE, userID |-> 0]
  ELSE IF ValidateToken(Split(authHeader)[2], t).err # NoErr
    THEN [status |-> 401, next |-> FALSE, userID |-> 0]
  ELSE [status |-> 0, next |-> TRUE,
        userID |-> ValidateToken(Split(authHeader)[2], t).userID]

\* The router serves a request up to the entry of its handler; what the
\* handler does is the service operation it calls.
Request(p, route, authHeader) ==
  LET m == IF Router[route].authRequired
             THEN AuthMiddleware(authHeader, now)
             ELSE [status |-> 0, next |-> TRUE, userID |-> 0]
      r == [NoRet EXCEPT !.op = "Request", !.route = route,
                         !.header = authHeader, !.at = now]
  IN
  /\ Start(p)
  /\ UNCHANGED << urlVars, authVars >>
  /\ Return(p, [r EXCEPT !.status = m.status, !.userID = m.userID,
                         !.handler = IF m.next THEN Router[route].handler
                                     ELSE "none"])

\* Requests through the router, as time passes.
NextHTTP ==
  \/ Tick
  \/ \E p \in Procs, route \in Routes, h \in Headers : Request(p, route, h)

SpecHTTP == InitTokens /\ [][NextHTTP]_vars

\* --------------------------------------------------------- HTTP handlers
\* errors.Is(err, target): err or an error of its chain is target.
\* errors.Wrap builds a fresh error with no chain, so a wrapped
\* error is none of the sentinels
Is(err, target) ==
  \/ err = target
  \/ Unwrap(err) # NoErr /\ Unwrap(err) = target

\* mutant: every failure is answered 500
URLHandlerStatus_NoMapping(op, err) ==
  IF err # NoErr THEN 500
  ELSE IF op = "ShortenURL" THEN 201
  ELSE IF op = "RedirectURL" THEN 301
  ELSE 200

\* The status code a URLHandler method writes when the service method op
\* has returned err.
URLHandlerStatus(op, err) ==
  IF op = "ShortenURL"
    THEN IF err = NoErr THEN 201
         ELSE IF Is(err, ErrInvalidURL) THEN 400 ELSE 500
  ELSE IF op = "ListURLs"
    THEN IF err = NoErr THEN 200 ELSE 500
  ELSE IF err = NoErr THEN (IF op = "RedirectURL" THEN 301 ELSE 200)
  ELSE IF Is(err, ErrURLNotFound) THEN 404 ELSE 500

\* ------------------------------------------------------------ the claims
\* a step in which some operation returns
Returned == ret'.n # ret.n
\* a step in which some operation is entered
Entered == ncalls' # ncalls
InFlight(shortCode) ==
  { p \in Procs : pc[p] = "increment" /\ loc[p].shortCode = shortCode }

\* C1: on a code that no delete and no failed increment has touched, once
\* every RedirectURL on it has returned, visits equals the number of
\* RedirectURL calls on it that returned a destination, however the calls
\* interleaved: no increment is lost.
C1_NoLostIncrement ==
  \A row \in urls :
    (done[row.short_code] # Untracked /\ InFlight(row.short_code) = {})
      => row.visits = done[row.short_code]

\* two RedirectURL calls on one code have returned, and the second to
\* return had read the row before the first incremented it
C1_Witness ==
  \E row \in urls :
    /\ done[row.short_code] = 2 /\ InFlight(row.short_code) = {}
    /\ row.visits = 2
    /\ ret.op = "RedirectURL" /\ ret.code_in = row.short_code
    /\ ret.seen = 0

\* C2: the table holds at most one row per original_url.
C2_OneRecordPerOriginalURL ==
  \A r1, r2 \in urls : r1.original_url = r2.original_url => r1 = r2

\* C3: the table holds at most one row per short_code, and a Create whose
\* short_code is held by a row fails and leaves the table unchanged.
C3_UniqueShortCode ==
  /\ [](\A r1, r2 \in urls : r1.short_code = r2.short_code => r1 = r2)
  /\ [][\A p \in Procs :
          (pc[p] = "create" /\ pc'[p] = "idle"
             /\ RowsByCode(urls, loc[p].shortCode) # {})
          => (ret'.err # NoErr /\ ret'.url = NoURL /\ urls' = urls)]_vars

\* a Create was refused by the unique index while a row held the code
C3_Witness ==
  /\ ret.op = "ShortenURL" /\ ret.err = ErrDuplicate
  /\ urls # {}

\* what the retry loop of the specification returns when it gives up
ErrCodeGenerationExhausted == "code generation exhausted"

\* C4: a ShortenURL whose Create met a code collision retries with a fresh
\* code; it fails, with CodeGenerationExhausted, only after 5 Creates.
C4_RetryOnCollision ==
  (ret.op = "ShortenURL"
     /\ ret.err \in {ErrDuplicate, ErrCodeGenerationExhausted})
    => (ret.err = ErrCodeGenerationExhausted /\ ret.calls = 1 + 5)

\* C5: of two ShortenURL calls for one URL that were in flight together,
\* when one has returned a record, the other, having missed the dedup
\* lookup, returns no error and a record with the same short_code.
C5_RaceReturnsSameRecord ==
  LET p == ret.proc IN
  (ret.op = "ShortenURL" /\ ret.calls = 2 /\ pc[p] = "idle"
     /\ ret.err # ErrStore)
    => \A q \in overlap[p] :
         (p \in overlap[q] /\ pc[q] = "idle" /\ known[q] # NoURL
            /\ known[q].original_url = ret.url_in)
           => (ret.err = NoErr
                 /\ known[q].short_code = ret.url.short_code)

\* C6: a ShortenURL that succeeds for the URL of the worker's previous
\* successful ShortenURL, no DeleteURL of that row in between, returns the
\* same short_code and inserts no row.
C6_SequentialSameCode ==
  [][LET p == ret'.proc IN
     (Returned /\ ret'.op = "ShortenURL" /\ ret'.err = NoErr
        /\ known[p] # NoURL /\ known[p].original_url = ret'.url_in)
       => (ret'.url.short_code = known[p].short_code /\ urls' = urls)]_vars

\* C7: a successful ShortenURL(u) returns a row for u, and a GetURL of the
\* returned code, no DeleteURL of it in between, returns a row with that
\* code and original_url u unless the store call fails.
C7_RoundTrip ==
  LET p == ret.proc IN
  /\ (ret.op = "ShortenURL" /\ ret.err = NoErr)
       => (ret.url.original_url = ret.url_in /\ known[p] = ret.url)
  /\ (ret.op = "GetURL" /\ known[p] # NoURL
        /\ known[p].short_code = ret.code_in /\ ret.err # ErrStore)
       => /\ ret.err = NoErr
          /\ ret.url.original_url = known[p].original_url
          /\ ret.url.short_code = ret.code_in

\* a GetURL of the code its worker's ShortenURL returned, with another row
\* in the table
C7_Witness ==
  /\ ret.op = "GetURL" /\ ret.err = NoErr
  /\ known[ret.proc] # NoURL /\ known[ret.proc].short_code = ret.code_in
  /\ Cardinality(urls) = 2

\* C8: ShortenURL("") returns ErrInvalidURL and no record, calls the store
\* not once and leaves the table unchanged.
C8_EmptyURLRejected ==
  [][(Returned /\ ret'.op = "ShortenURL" /\ ret'.url_in = EmptyURL)
       => (ret'.err = ErrInvalidURL /\ ret'.url = NoURL /\ ret'.calls = 0
             /\ urls' = urls /\ nextId' = nextId)]_vars

C8_Witness ==
  ret.op = "ShortenURL" /\ ret.url_in = EmptyURL /\ ret.err = ErrInvalidURL

\* C9: GetURL, RedirectURL and DeleteURL entered on a code that no row
\* holds return ErrURLNotFound unless the store call fails; RedirectURL
\* returns "" and makes no IncrementVisits call; the table is unchanged.
C9_AbsentCodeNotFound ==
  [][(Entered /\ Returned
        /\ ret'.op \in {"GetURL", "RedirectURL", "DeleteURL"}
        /\ RowsByCode(urls, ret'.code_in) = {})
       => /\ ret'.err \in {ErrURLNotFound, ErrStore}
          /\ ret'.dest = "" /\ ret'.url = NoURL /\ ret'.calls = 1
          /\ urls' = urls]_vars

\* a DeleteURL on an absent code answered ErrURLNotFound, rows remaining
C9_Witness ==
  /\ ret.op = "DeleteURL" /\ ret.err = ErrURLNotFound
  /\ RowsByCode(urls, ret.code_in) = {} /\ urls # {}

\* C10: a DeleteURL on a held code whose store call does not fail returns
\* nil and removes that row and no other; from then until a ShortenURL
\* inserts the code again no row holds it, and GetURL, RedirectURL and
\* DeleteURL entered on it return ErrURLNotFound unless the store call fails.
C10_DeleteRemoves ==
  /\ [](\A c \in removed : RowsByCode(urls, c) = {})
  /\ [][(Entered /\ Returned /\ ret'.op = "DeleteURL"
           /\ RowsByCode(urls, ret'.code_in) # {} /\ ret'.err # ErrStore)
          => /\ ret'.err = NoErr
             /\ Cardinality(urls') = Cardinality(urls) - 1
             /\ urls' = urls \ RowsByCode(urls, ret'.code_in)
             /\ ret'.code_in \in removed']_vars
  /\ [][(Entered /\ Returned
           /\ ret'.op \in {"GetURL", "RedirectURL", "DeleteURL"}
           /\ ret'.code_in \in removed)
          => ret'.err \in {ErrURLNotFound, ErrStore}]_vars
  /\ [][\A c \in removed \ removed' :
          /\ Returned /\ ret'.op = "ShortenURL" /\ ret'.err = NoErr
          /\ ret'.url.short_code = c /\ ret'.url \in urls']_vars

\* a GetURL on a deleted code answered ErrURLNotFound, another row remaining
C10_Witness ==
  /\ ret.op = "GetURL" /\ ret.err = ErrURLNotFound
  /\ ret.code_in \in removed /\ urls # {}

\* C11: a RedirectURL that found a row for its code returns that row's
\* original_url and no error, whatever its IncrementVisits call answered:
\* nil, a store error, or not found because the row was deleted meanwhile.
C11_RedirectIgnoresIncrementError ==
  [][\A p \in Procs :
       (pc[p] = "increment" /\ pc'[p] = "idle")
         => /\ ret'.op = "RedirectURL" /\ ret'.code_in = loc[p].shortCode
            /\ ret'.err = NoErr
            /\ ret'.dest = loc[p].url.original_url /\ ret'.dest # ""
            /\ ret'.inc \in {NoErr, ErrStore, ErrURLNotFound}]_vars

\* a RedirectURL returned the destination although its increment found the
\* row gone
C11_Witness ==
  /\ ret.op = "RedirectURL" /\ ret.err = NoErr /\ ret.dest # ""
  /\ ret.inc = ErrURLNotFound /\ RowsByCode(urls, ret.code_in) = {}

\* the 62 characters a-z, A-Z, 0-9
Alnum ==
  { "a","b","c","d","e","f","g","h","i","j","k","l","m","n","o","p","q",
    "r","s","t","u","v","w","x","y","z" }
  \cup
  { "A","B","C","D","E","F","G","H","I","J","K","L","M","N","O","P","Q",
    "R","S","T","U","V","W","X","Y","Z" }
  \cup { "0","1","2","3","4","5","6","7","8","9" }
WellFormedCode(code) ==
  /\ Len(code) = 6
  /\ \A i \in 1..Len(code) : code[i] \in Alnum

\* C12: the generator's alphabet is exactly the 62 characters a-z, A-Z, 0-9,
\* and every code it returns, every code a ShortenURL is about to insert,
\* every short_code in the table and every short_code a ShortenURL returns
\* has exactly 6 characters, all of that alphabet.
C12_CodeShape ==
  /\ Len(charset) = 62 /\ Cardinality(Alnum) = 62
  /\ { charset[k] : k \in 1..Len(charset) } = Alnum
  /\ \A d \in RandStreams : WellFormedCode(generateShortCode(d))
  /\ \A p \in Procs : pc[p] = "create" => WellFormedCode(loc[p].shortCode)
  /\ \A row \in urls : WellFormedCode(row.short_code)
  /\ (ret.op = "ShortenURL" /\ ret.err = NoErr)
       => WellFormedCode(ret.url.short_code)

\* a ShortenURL inserted and returned a row whose code holds the first and
\* the last character of the alphabet
C12_Witness ==
  /\ ret.op = "ShortenURL" /\ ret.err = NoErr /\ ret.calls = 2
  /\ ret.url \in urls
  /\ \E i, j \in 1..6 : /\ ret.url.short_code[i] = charset[1]
                        /\ ret.url.short_code[j] = charset[62]

\* the rows of a page
RowsOf(list) == { list[i] : i \in 1..Len(list) }

\* C13: two ListURLs calls with the same limit, the second entered after the
\* first returned with no other return in between (so over the same table)
\* and asking for the next page, return two consecutive windows of one
\* ordering of all rows: no row on both pages and no row skipped.
C13_PagesOfOneOrdering ==
  [][(Entered /\ Returned /\ ret.op = "ListURLs" /\ ret'.op = "ListURLs"
        /\ ret.err = NoErr /\ ret'.err = NoErr
        /\ ret'.limit = ret.limit /\ ret'.offset = ret.offset + ret.limit)
       => \E ord \in ScanOrders(urls) :
            /\ ret.list = Window(ord, ret.limit, ret.offset)
            /\ ret'.list = Window(ord, ret'.limit, ret'.offset)]_vars

\* C14: the rows a ListURLs returns are in descending order of created_at.
C14_ListNewestFirst ==
  (ret.op = "ListURLs" /\ ret.err = NoErr)
    => \A i, j \in 1..Len(ret.list) :
         i < j => created_at(ret.list[i]) > created_at(ret.list[j])

\* C19: the handler answers a service ErrURLNotFound of GetURL, DeleteURL
\* and RedirectURL with 404 and an ErrInvalidURL of ShortenURL with 400,
\* every other service error with 500, and a success with a status below
\* 400.
C19_StatusMapping ==
  LET status == URLHandlerStatus(ret.op, ret.err) IN
  /\ ret.op \in {"GetURL", "DeleteURL", "RedirectURL"}
       => /\ ret.err = ErrURLNotFound => status = 404
          /\ ret.err \notin {NoErr, ErrURLNotFound} => status = 500
  /\ ret.op = "ShortenURL"
       => /\ ret.err = ErrInvalidURL => status = 400
          /\ ret.err \notin {NoErr, ErrInvalidURL} => status = 500
  /\ (ret.op # "none" /\ ret.err = NoErr) => status \in 200..399

\* a DeleteURL on an absent code returned ErrURLNotFound while a row was in
\* the table: the handler answers 404
C19_Witness ==
  /\ ret.op = "DeleteURL" /\ ret.err = ErrURLNotFound /\ urls # {}
  /\ URLHandlerStatus(ret.op, ret.err) = 404

\* C20: when a RedirectURL returns and its IncrementVisits did not fail, the
\* row already holds one visit more than just before that call; a GetURL of
\* the code entered after that return, no other return in between, returns
\* the row with exactly that count unless its own store call fails.
C20_IncrementBeforeReturn ==
  /\ [][\A p \in Procs :
          (pc[p] = "increment" /\ pc'[p] = "idle" /\ ret'.inc = NoErr)
            => /\ RowsByCode(urls, loc[p].shortCode) # {}
               /\ ret'.after = VisitsOf(urls, loc[p].shortCode) + 1
               /\ VisitsOf(urls', loc[p].shortCode) = ret'.after]_vars
  /\ [][(Entered /\ Returned /\ ret'.op = "GetURL"
           /\ ret.op = "RedirectURL" /\ ret.calls = 2 /\ ret.inc = NoErr
           /\ ret'.code_in = ret.code_in /\ ret'.err # ErrStore)
          => (ret'.err = NoErr /\ ret'.url.visits = ret.after)]_vars

\* a GetURL that followed a RedirectURL of its code returned the row with
\* one visit more than the RedirectURL had read
C20_Witness ==
  /\ ret.op = "GetURL" /\ ret.err = NoErr
  /\ done[ret.code_in] = 1 /\ ret.url.visits = 1
  /\ ncalls = 2

\* the routes of the /api/urls group and /api/profile
Protected ==
  { "GET /api/profile", "POST /api/urls", "GET /api/urls",
    "GET /api/urls/:shortCode", "DELETE /api/urls/:shortCode" }
\* a header of the form "Bearer <token>", the token without a space
BearerForm(header) ==
  /\ Len(header) >= 2 /\ header[1] = Bearer /\ header[2] = SP
  /\ \A i \in 3..Len(header) : header[i] # SP
\* no header, a header of another form, or a token ValidateToken rejects
Rejected(header, t) ==
  \/ header = EmptyString
  \/ ~BearerForm(header)
  \/ ValidateToken(SubSeq(header, 3, Len(header)), t).err # NoErr

SignedByService(tokenString) ==
  /\ Len(tokenString) = 1 /\ tokenString[1].form = "jwt"
  /\ tokenString[1].sig = HS256(jwtKey, tokenString[1].claims)

\* C16: the token GenerateToken(id) returns validates to id, with no error,
\* at every time from its issue until it expires; ValidateToken answers a
\* token issued for id and not yet expired with id and no error, and a
\* string that is not a JWT signed with the service key with
\* ErrInvalidToken and user id 0.
C16_TokenRoundTrip ==
  /\ ret.op = "GenerateToken"
       => /\ ret.err = NoErr
          /\ \A t \in ret.at..(ret.at + TokenTTL - 1) :
                ValidateToken(ret.token, t) =
                  [userID |-> ret.userID, err |-> NoErr]
  /\ ret.op = "ValidateToken"
       => /\ \A id \in UserIDs, t0 \in 0..ret.at :
                (ret.token = GenerateToken(id, t0).token
                   /\ ret.at < t0 + TokenTTL)
                  => (ret.err = NoErr /\ ret.userID = id)
          /\ ~SignedByService(ret.token)
               => (ret.err = ErrInvalidToken /\ ret.userID = 0)

\* a token issued for user 2 was validated a tick after its issue
C16_Witness ==
  /\ ret.op = "ValidateToken" /\ ret.err = NoErr /\ ret.userID = 2
  /\ ret.token = GenerateToken(2, ret.at - 1).token

\* C17 as stated: a Register entered with a username or an email that a
\* user has returns ErrUserAlreadyExists, no user and an empty token, does
\* not call CreateUser and leaves the users table unchanged.
C17_DuplicateRejected ==
  [][(Returned /\ ret'.op = "Register" /\ ret'.taken)
       => /\ ret'.err = ErrUserAlreadyExists
          /\ ret'.user = NoUser /\ ret'.token = EmptyString
          /\ ret'.calls < 3 /\ users' = users]_vars

\* C17 amended: a Register entered with a username or an email that a user
\* has fails, returns no user and an empty token and leaves the users table
\* unchanged; it fails with ErrUserAlreadyExists, without calling
\* CreateUser, when no lookup met a store error.  When a lookup did, its
\* error is discarded, and Register may reach CreateUser, which fails.
C17_DuplicateRejectedUnlessLookupFails ==
  [][(Returned /\ ret'.op = "Register" /\ ret'.taken)
       => /\ ret'.err # NoErr
          /\ ret'.user = NoUser /\ ret'.token = EmptyString
          /\ users' = users
          /\ ~ret'.dropped
               => (ret'.err = ErrUserAlreadyExists /\ ret'.calls < 3)
          /\ ret'.calls = 3
               => (ret'.dropped /\ ret'.err \in {ErrDuplicate, ErrStore})
          /\ ret'.calls < 3 => ret'.err = ErrUserAlreadyExists]_vars

\* a Register with a free username and a taken email was refused by the
\* lookup by email
C17_Witness ==
  /\ ret.op = "Register" /\ ret.taken /\ ~ret.dropped
  /\ ret.err = ErrUserAlreadyExists /\ ret.calls = 2
  /\ users # {}

\* C18: a Login returns ErrInvalidCredentials and an empty token when no
\* user has the username and when no user with the username has a stored
\* hash that is the hash of the password; it returns a token only with no
\* error, for a user with that username whose stored hash is the hash of
\* the password, and the token is one ValidateToken maps to that user's id.
C18_LoginChecksCredentials ==
  [][(Entered /\ Returned /\ ret'.op = "Login")
       => LET named == UsersByName(users, ret'.username)
              matching == { u \in named : u.password = bcrypt(ret'.password) }
          IN
          /\ matching = {}
               => (ret'.err = ErrInvalidCredentials
                     /\ ret'.token = EmptyString)
          /\ ret'.token # EmptyString
               => /\ ret'.err = NoErr
                  /\ \E u \in matching :
                        ValidateToken(ret'.token, now) =
                          [userID |-> u.id, err |-> NoErr]
          /\ ret'.err \in {NoErr, ErrInvalidCredentials}
          /\ ret'.err = NoErr => ret'.token # EmptyString]_vars

\* a Login with the password of a stored user returned a token while
\* another user was registered
C18_Witness ==
  /\ ret.op = "Login" /\ ret.err = NoErr /\ ret.token # EmptyString
  /\ Cardinality(users) = 2

\* C21: the row a ShortenURL inserts has visits 0; visits is never negative;
\* and from one state to the next the visits of a row that stays in the
\* table (the row with the same id) does not decrease, whatever operations
\* interleave.
C21_VisitsMonotone ==
  /\ [](\A row \in urls : row.visits >= 0)
  /\ [][\A new \in urls' :
          IF \E old \in urls : old.id = new.id
            THEN \A old \in urls : old.id = new.id => new.visits >= old.visits
            ELSE /\ new.visits = 0
                 /\ Returned /\ ret'.op = "ShortenURL" /\ ret'.url = new]_vars

\* a ShortenURL inserted a row, with visits 0, beside a row that has been
\* visited
C21_Witness ==
  /\ ret.op = "ShortenURL" /\ ret.err = NoErr /\ ret.calls = 2
  /\ ret.url \in urls /\ ret.url.visits = 0
  /\ \E row \in urls : row.visits >= 1

\* C22: a row that stays in the table changes in a step only when that step
\* is the IncrementVisits of a RedirectURL on the row's code, and then only
\* its visits, by one; so ShortenURL, GetURL, ListURLs and DeleteURL change
\* the visits of no row that stays.  GetURL and ListURLs leave the table
\* unchanged, as do the lookups that open ShortenURL and RedirectURL, and a
\* RedirectURL on code c neither changes, adds nor removes a row of another
\* code.
C22_VisitsFrame ==
  [][/\ \A old \in urls, new \in urls' :
          (old.id = new.id /\ new # old)
            => /\ Returned /\ ret'.op = "RedirectURL" /\ ret'.calls = 2
               /\ ret'.inc = NoErr /\ ret'.code_in = old.short_code
               /\ new = [old EXCEPT !.visits = @ + 1]
     /\ (Returned /\ ret'.op \in {"GetURL", "ListURLs"}) => urls' = urls
     /\ ~Returned => urls' = urls
     /\ (Returned /\ ret'.op = "RedirectURL")
          => \A row \in urls \cup urls' :
               row.short_code # ret'.code_in
                 => (row \in urls /\ row \in urls')]_vars

\* a RedirectURL incremented its row while a row of another code, never
\* visited, was in the table
C22_Witness ==
  /\ ret.op = "RedirectURL" /\ ret.inc = NoErr /\ ret.calls = 2
  /\ VisitsOf(urls, ret.code_in) = 1
  /\ \E row \in urls : row.short_code # ret.code_in /\ row.visits = 0

\* C23: a ShortenURL entered for a URL that a row of the table holds, and
\* whose lookup the store answers, returns that row as stored (its id, its
\* short_code and its current visits) with no error after that one store
\* call: it goes on to no Create, and the table and the id sequence are
\* unchanged.  (A lookup that fails is the case of C24.)
C23_DedupReturnsStored ==
  [][\A p \in Procs, u \in URLs :
       (Entered /\ RowsByURL(urls, u) # {}
          /\ \/ Returned /\ ret'.proc = p /\ ret'.op = "ShortenURL"
                  /\ ret'.url_in = u
             \/ pc'[p] = "create" /\ pc[p] = "idle"
                  /\ loc'[p].originalURL = u)
         => /\ urls' = urls /\ nextId' = nextId
            /\ pc'[p] = "create" => loc'[p].lookup = ErrStore
            /\ (Returned /\ ret'.lookup = NoErr)
                 => /\ ret'.err = NoErr /\ ret'.calls = 1
                    /\ ret'.url \in RowsByURL(urls, u)
                    /\ ret'.url = First(RowsByURL(urls, u))]_vars

\* a ShortenURL of a URL whose row had been visited returned that row, its
\* visits kept
C23_Witness ==
  /\ ret.op = "ShortenURL" /\ ret.err = NoErr /\ ret.calls = 1
  /\ ret.url \in urls /\ ret.url.visits = 1
  /\ ret.url.original_url = ret.url_in

\* C24: a store failure an operation meets, other than that of the
\* IncrementVisits of a RedirectURL, comes back to the caller as an error
\* that is not ErrURLNotFound; in particular a ShortenURL whose
\* GetByOriginalURL failed with a store error goes on to no Create, returns
\* an error and no row, and leaves the table unchanged.
C24_StoreFailureSurfaced ==
  /\ [](\A p \in Procs : pc[p] = "create" => loc[p].lookup = NoErr)
  /\ [][(Returned /\ ret'.op = "ShortenURL" /\ ret'.lookup = ErrStore)
          => /\ ret'.err \notin {NoErr, ErrURLNotFound}
             /\ ret'.url = NoURL /\ ret'.calls = 1
             /\ urls' = urls]_vars

\* C25: a ShortenURL whose generateShortCode failed (the random source
\* returned an error) goes on to no Create with a code from elsewhere: it
\* returns an error whose chain holds ErrGeneratingCode and no row, after
\* the lookup as its only store call, and leaves the table and the id
\* sequence unchanged.
C25_RandFailureAborts ==
  /\ [](\A p \in Procs : pc[p] = "create" => loc[p].randErr = NoErr)
  /\ [][(Returned /\ ret'.op = "ShortenURL" /\ ret'.randErr # NoErr)
          => /\ Is(ret'.err, ErrGeneratingCode) /\ ret'.err # NoErr
             /\ ret'.url = NoURL /\ ret'.calls = 1
             /\ urls' = urls /\ nextId' = nextId]_vars

\* a ShortenURL of a new URL was aborted by the random source while a row
\* was in the table
C25_Witness ==
  /\ ret.op = "ShortenURL" /\ ret.randErr = ErrRand
  /\ Is(ret.err, ErrGeneratingCode)
  /\ urls # {} /\ RowsByURL(urls, ret.url_in) = {}

\* C26: a record is the row of one id.  A row enters the table only as the
\* row a successful ShortenURL returns, and with the next id of the
\* sequence, which is above every id given before and never goes back: so
\* the id of a deleted row is not given again.  A row leaves the table only
\* by a successful DeleteURL of its code.  A row that stays keeps its
\* original_url and its short_code, and no two rows share an id.
C26_RecordLifecycle ==
  /\ [](\A row \in urls : row.id >= 1 /\ row.id < nextId)
  /\ [](\A r1, r2 \in urls : r1.id = r2.id => r1 = r2)
  /\ [][/\ nextId' >= nextId
        /\ \A new \in urls' :
             (\A old \in urls : old.id # new.id)
               => /\ new.id = nextId /\ nextId' = nextId + 1
                  /\ Returned /\ ret'.op = "ShortenURL" /\ ret'.err = NoErr
                  /\ ret'.url = new /\ new.original_url = ret'.url_in
        /\ \A old \in urls :
             (\A new \in urls' : new.id # old.id)
               => /\ Returned /\ ret'.op = "DeleteURL" /\ ret'.err = NoErr
                  /\ ret'.code_in = old.short_code
        /\ \A old \in urls, new \in urls' :
             old.id = new.id
               => /\ new.original_url = old.original_url
                  /\ new.short_code = old.short_code]_vars

\* the first row was deleted, and a ShortenURL of its URL that drew its code
\* inserted a row with a new id
C26_Witness ==
  /\ ret.op = "ShortenURL" /\ ret.err = NoErr /\ ret.url \in urls
  /\ ret.url.id = 2 /\ \A row \in urls : row.id # 1
  /\ ret.url.short_code = SeedRow.short_code
  /\ ret.url.original_url = SeedRow.original_url

\* C27: DeleteURL against a RedirectURL of the same code, the store
\* answering.  A DeleteURL entered on a held code, before, after or between
\* the two store calls of a RedirectURL of that code, returns nil, removes
\* the rows of that code and no other.  When a RedirectURL increments, the
\* row gone, the table is unchanged (nothing is inserted), and the call
\* returns the original_url it read and no error; a RedirectURL entered
\* after the delete returns ErrURLNotFound and "".  Whatever the order, a
\* RedirectURL returns ErrURLNotFound with "", or a destination with nil,
\* unless its lookup fails.
C27_DeleteRacesRedirect ==
  /\ [](\A c \in removed : RowsByCode(urls, c) = {})
  /\ [][(Entered /\ Returned /\ ret'.op = "DeleteURL"
           /\ RowsByCode(urls, ret'.code_in) # {} /\ ret'.err # ErrStore)
          => /\ ret'.err = NoErr
             /\ RowsByCode(urls', ret'.code_in) = {}
             /\ \A row \in urls \cup urls' :
                  row.short_code # ret'.code_in
                    => (row \in urls /\ row \in urls')]_vars
  /\ [][\A p \in Procs :
          (pc[p] = "increment" /\ pc'[p] = "idle"
             /\ RowsByCode(urls, loc[p].shortCode) = {})
            => /\ urls' = urls /\ nextId' = nextId /\ removed' = removed
               /\ ret'.op = "RedirectURL" /\ ret'.err = NoErr
               /\ ret'.dest = loc[p].url.original_url /\ ret'.dest # ""
               /\ ret'.inc \in {ErrURLNotFound, ErrStore}]_vars
  /\ [][(Entered /\ Returned /\ ret'.op = "RedirectURL"
           /\ RowsByCode(urls, ret'.code_in) = {})
          => /\ ret'.err \in {ErrURLNotFound, ErrStore} /\ ret'.dest = ""
             /\ urls' = urls]_vars
  /\ [][(Returned /\ ret'.op = "RedirectURL")
          => \/ ret'.err = ErrURLNotFound /\ ret'.dest = ""
             \/ ret'.err = NoErr /\ ret'.dest # ""
             \/ ret'.err = ErrStore /\ ret'.dest = "" /\ ret'.calls = 1]_vars

\* a RedirectURL read its row, a DeleteURL removed the row, and the
\* RedirectURL then returned the destination; the row of another code is
\* still in the table
C27_Witness ==
  /\ ret.op = "RedirectURL" /\ ret.err = NoErr /\ ret.dest # ""
  /\ ret.inc = ErrURLNotFound /\ ret.code_in \in removed
  /\ \E row \in urls : row.short_code # ret.code_in

\* C28: an operation called with a context that is already cancelled or
\* past its deadline applies none of its store calls (no row is inserted,
\* removed or incremented in any of its steps) and returns an error.
C28_CancelledContextStopsStoreCalls ==
  /\ [](ret.ctx = Cancelled => ret.err # NoErr)
  /\ [][(Returned /\ ret'.ctx = Cancelled) => urls' = urls]_vars

\* C29: a Login entered right after a Register returned a user, with that
\* user's username and the password it was registered with, returns no
\* error and a token that ValidateToken maps to the id of that user.
C29_RegisterThenLogin ==
  [][(Entered /\ Returned /\ ret.op = "Register" /\ ret.err = NoErr
        /\ ret'.op = "Login" /\ ret'.username = ret.user.username
        /\ ret'.password \in NewPasswords)
       => /\ ret'.err = NoErr /\ ret'.token # EmptyString
          /\ ValidateToken(ret'.token, now) =
               [userID |-> ret.user.id, err |-> NoErr]]_vars

\* C30: of two DeleteURL calls by different workers on a held code, the
\* store answering both statements, the one whose DELETE runs first
\* returns nil and removes the rows of that code and no other, and the
\* other, no ShortenURL having returned in between, returns ErrURLNotFound
\* and leaves the table unchanged; the code is absent afterwards.  (Each
\* call is its one DELETE statement, so the two calls overlap in no other
\* way than one statement running before the other.)
C30_ConcurrentDeletes ==
  /\ [](\A c \in removed : RowsByCode(urls, c) = {})
  /\ [][(Entered /\ Returned /\ ret'.op = "DeleteURL"
           /\ RowsByCode(urls, ret'.code_in) # {} /\ ret'.err # ErrStore)
          => /\ ret'.err = NoErr /\ ret'.code_in \in removed'
             /\ urls' = { row \in urls : row.short_code # ret'.code_in }]_vars
  /\ [][(Entered /\ Returned /\ ret'.op = "DeleteURL"
           /\ ret.op = "DeleteURL" /\ ret.err = NoErr
           /\ ret'.code_in = ret.code_in /\ ret'.proc # ret.proc
           /\ ret'.err # ErrStore)
          => /\ ret'.err = ErrURLNotFound
             /\ urls' = urls /\ RowsByCode(urls', ret'.code_in) = {}]_vars

\* after a ShortenURL inserted a second row, two DeleteURL calls were made
\* on the code of the first row: the second returned ErrURLNotFound, and
\* the second row is still there
C30_Witness ==
  /\ ret.op = "DeleteURL" /\ ret.err = ErrURLNotFound
  /\ ret.code_in \in removed /\ ret.code_in = SeedRow.short_code
  /\ ret.n = 3 /\ ncalls = 3
  /\ Cardinality(urls) = 1

====
